---- MODULE Spec2Model ----
(***************************************************************************)
(* Model of the VC Council backend: the orchestrator                       *)
(* (services/crew_orchestrator.py), the SSE manager (api/sse.py) and the   *)
(* Metorial OAuth client with its routes (tools/mcp_client.py,             *)
(* api/oauth_routes.py).                                                   *)
(*                                                                         *)
(* Text is modelled as a sequence of lexical tokens: a quoted string       *)
(* "..." is one token, the punctuation { } [ ] : , one token each, and a   *)
(* run of prose one token.  str.find, str.rfind, the regular expressions   *)
(* and json.loads act on these tokens as the Python code acts on the       *)
(* characters.                                                             *)
(***************************************************************************)
EXTENDS Integers, Sequences, FiniteSets, TLC

\* ------------------------------------------------------------------------
\* Bounds of the model
\* ------------------------------------------------------------------------
MaxListeners == 2
MaxOAuth == 2
MaxWaitTicks == 1
MaxPendingCallbacks == 1
MaxEvents == 2
MaxPublish == 2

\* ------------------------------------------------------------------------
\* Tokens and JSON values
\* ------------------------------------------------------------------------
Tok(k, v) == [k |-> k, v |-> v]
LB == Tok("lb", "")
RB == Tok("rb", "")
LS == Tok("ls", "")
RS == Tok("rs", "")
COLON == Tok("colon", "")
COMMA == Tok("comma", "")
S(v) == Tok("str", v)
TXT(v) == Tok("txt", v)

JStr(s) == [t |-> "str", s |-> s]
JArr(a) == [t |-> "arr", a |-> a]
JObj(o) == [t |-> "obj", o |-> o]
JNone == [t |-> "none"]
Pair(k, v) == [k |-> k, v |-> v]

\* dict.get / "key in dict": the value of the last pair with the key
RECURSIVE GetFrom(_, _, _)
GetFrom(o, key, i) ==
    IF i = 0 THEN JNone
    ELSE IF o[i].k = key THEN o[i].v ELSE GetFrom(o, key, i - 1)

Get(d, key) == IF d.t = "obj" THEN GetFrom(d.o, key, Len(d.o)) ELSE JNone

\* Python truthiness of a JSON value
Truthy(v) ==
    CASE v.t = "none" -> FALSE
      [] v.t = "str" -> v.s # ""
      [] v.t = "arr" -> v.a # <<>>
      [] v.t = "obj" -> v.o # <<>>
      [] OTHER -> TRUE

\* str.upper() and str.lower() on the vocabulary of the model
Upper(s) ==
    CASE s = "invest" -> "INVEST"
      [] s = "Invest" -> "INVEST"
      [] s = "maybe" -> "MAYBE"
      [] s = "pass" -> "PASS"
      [] s = "strong buy" -> "STRONG BUY"
      [] OTHER -> s

Lower(s) ==
    CASE s = "Decision" -> "decision"
      [] s = "DECISION" -> "decision"
      [] s = "Reasoning" -> "reasoning"
      [] s = "Calendar_Events" -> "calendar_events"
      [] s = "UNCERTAIN outlook" -> "uncertain outlook"
      [] OTHER -> s

\* ------------------------------------------------------------------------
\* json.loads on a token sequence (recursive descent)
\* ------------------------------------------------------------------------
PFail(i) == [ok |-> FALSE, val |-> JNone, nxt |-> i]
POk(v, i) == [ok |-> TRUE, val |-> v, nxt |-> i]

RECURSIVE ParseValue(_, _)
RECURSIVE ParseMembers(_, _, _)
RECURSIVE ParseElements(_, _, _)

ParseValue(toks, i) ==
    IF i > Len(toks) THEN PFail(i)
    ELSE CASE toks[i].k = "str" -> POk(JStr(toks[i].v), i + 1)
           [] toks[i].k = "lb" ->
                IF i + 1 <= Len(toks) /\ toks[i + 1].k = "rb"
                THEN POk(JObj(<<>>), i + 2)
                ELSE ParseMembers(toks, i + 1, <<>>)
           [] toks[i].k = "ls" ->
                IF i + 1 <= Len(toks) /\ toks[i + 1].k = "rs"
                THEN POk(JArr(<<>>), i + 2)
                ELSE ParseElements(toks, i + 1, <<>>)
           [] OTHER -> PFail(i)

\* at position i a member  "key" : value  is expected
ParseMembers(toks, i, acc) ==
    IF i + 1 > Len(toks) \/ toks[i].k # "str" \/ toks[i + 1].k # "colon"
    THEN PFail(i)
    ELSE LET r == ParseValue(toks, i + 2) IN
         IF ~r.ok THEN PFail(i)
         ELSE LET acc2 == Append(acc, Pair(toks[i].v, r.val)) IN
              IF r.nxt > Len(toks) THEN PFail(i)
              ELSE IF toks[r.nxt].k = "rb" THEN POk(JObj(acc2), r.nxt + 1)
              ELSE IF toks[r.nxt].k = "comma" THEN ParseMembers(toks, r.nxt + 1, acc2)
              ELSE PFail(i)

\* at position i an array element is expected
ParseElements(toks, i, acc) ==
    LET r == ParseValue(toks, i) IN
    IF ~r.ok THEN PFail(i)
    ELSE LET acc2 == Append(acc, r.val) IN
         IF r.nxt > Len(toks) THEN PFail(i)
         ELSE IF toks[r.nxt].k = "rs" THEN POk(JArr(acc2), r.nxt + 1)
         ELSE IF toks[r.nxt].k = "comma" THEN ParseElements(toks, r.nxt + 1, acc2)
         ELSE PFail(i)

\* json.loads: ok = FALSE stands for json.JSONDecodeError
json_loads(toks) ==
    LET r == ParseValue(toks, 1) IN
    IF r.ok /\ r.nxt = Len(toks) + 1 THEN r ELSE PFail(1)

\* ------------------------------------------------------------------------
\* str.find, str.rfind and re.search on tokens (0 = not found)
\* ------------------------------------------------------------------------
FindFirst(toks, kind) ==
    LET I == {i \in 1..Len(toks) : toks[i].k = kind} IN
    IF I = {} THEN 0 ELSE CHOOSE i \in I : \A j \in I : i <= j

FindLast(toks, kind) ==
    LET I == {i \in 1..Len(toks) : toks[i].k = kind} IN
    IF I = {} THEN 0 ELSE CHOOSE i \in I : \A j \in I : i >= j

\* re.search(r'"<key>"\s*:\s*"([^"]+)"', raw, re.IGNORECASE): position of the
\* value token of the first match
StrFieldMatch(toks, key) ==
    LET I == {i \in 1..Len(toks) :
                /\ i + 2 <= Len(toks)
                /\ toks[i].k = "str" /\ Lower(toks[i].v) = key
                /\ toks[i + 1].k = "colon"
                /\ toks[i + 2].k = "str" /\ toks[i + 2].v # ""}
    IN IF I = {} THEN 0 ELSE (CHOOSE i \in I : \A j \in I : i <= j) + 2

\* re.search(r'"calendar_events"\s*:\s*(\[[^\]]+\])', ...): the matched
\* bracket group [first, last], or <<0, 0>>
EventsMatch(toks) ==
    LET Close(i) == {j \in (i + 3)..Len(toks) : toks[j].k = "rs"}
        I == {i \in 1..Len(toks) :
                /\ i + 2 <= Len(toks)
                /\ toks[i].k = "str" /\ Lower(toks[i].v) = "calendar_events"
                /\ toks[i + 1].k = "colon"
                /\ toks[i + 2].k = "ls"
                /\ Close(i) # {}
                /\ (CHOOSE j \in Close(i) : \A j2 \in Close(i) : j <= j2) > i + 3}
    IN IF I = {} THEN <<0, 0>>
       ELSE LET i == CHOOSE i \in I : \A j \in I : i <= j
                c == CHOOSE j \in Close(i) : \A j2 \in Close(i) : j <= j2
            IN <<i + 2, c>>

\* ------------------------------------------------------------------------
\* Result extraction (crew_orchestrator.py, _run_analysis, lines 336-435)
\* ------------------------------------------------------------------------
max_raw_output_chars == 2000

Min(a, b) == IF a < b THEN a ELSE b

\* raw_output[:2000] as a Python str value
JRaw(toks) == [t |-> "raw", r |-> SubSeq(toks, 1, Min(Len(toks), max_raw_output_chars))]

Raised == [exc |-> TRUE, decision |-> JNone]
Returned(d) == [exc |-> FALSE, decision |-> d]

ErrorSentinel(raw) ==
    JObj(<<Pair("decision", JStr("ERROR")), Pair("raw_output", JRaw(raw))>>)

UnknownFallback(raw) ==
    JObj(<<Pair("decision", JStr("UNKNOWN")), Pair("raw_output", JRaw(raw))>>)

\* the regex fallback, lines 380-398 and 402-420 (the same code twice)
RegexExtract(raw) ==
    LET dm == StrFieldMatch(raw, "decision")
        rm == StrFieldMatch(raw, "reasoning")
        mm == StrFieldMatch(raw, "investment_memo")
        em == EventsMatch(raw)
        ev == IF em[1] # 0 THEN json_loads(SubSeq(raw, em[1], em[2]))
              ELSE POk(JArr(<<>>), 0)
    IN IF dm = 0 THEN Returned(ErrorSentinel(raw))
       ELSE IF ~ev.ok THEN Raised
       ELSE Returned(JObj(<<
                Pair("decision", JStr(Upper(raw[dm].v))),
                Pair("reasoning", JStr(IF rm # 0 THEN raw[rm].v ELSE "No reasoning provided")),
                Pair("investment_memo", JStr(IF mm # 0 THEN raw[mm].v ELSE "No memo provided")),
                Pair("calendar_events", ev.val)>>))

\* an extraction that uses the regex fallback only
ParseRaw_regex_only(raw) == RegexExtract(raw)

\* lines 362-420: decision is None and raw_output is a non-empty str
ParseRaw(raw) ==
    LET json_start == FindFirst(raw, "lb")
        json_last == FindLast(raw, "rb")
    IN IF json_start # 0 /\ json_last > json_start
       THEN LET p == json_loads(SubSeq(raw, json_start, json_last)) IN
            IF p.ok THEN Returned(p.val) ELSE RegexExtract(raw)
       ELSE RegexExtract(raw)

\* lines 336-435 for result.raw = raw: the decision dict, or an exception
\* that leaves the try block
ExtractDecision(raw) ==
    LET r == IF raw # <<>> THEN ParseRaw(raw) ELSE Returned(JNone) IN
    IF r.exc THEN Raised
    ELSE IF ~Truthy(r.decision) THEN Returned(UnknownFallback(raw))
    ELSE r

\* ------------------------------------------------------------------------
\* json.dumps, and the final outputs the model feeds to the extraction
\* ------------------------------------------------------------------------
RECURSIVE Dump(_)
RECURSIVE DumpElems(_, _)
RECURSIVE DumpMembers(_, _)

DumpElems(a, i) ==
    IF i > Len(a) THEN <<>>
    ELSE (IF i > 1 THEN <<COMMA>> ELSE <<>>) \o Dump(a[i]) \o DumpElems(a, i + 1)

DumpMembers(o, i) ==
    IF i > Len(o) THEN <<>>
    ELSE (IF i > 1 THEN <<COMMA>> ELSE <<>>) \o <<S(o[i].k), COLON>> \o Dump(o[i].v)
         \o DumpMembers(o, i + 1)

Dump(v) ==
    CASE v.t = "str" -> <<S(v.s)>>
      [] v.t = "arr" -> <<LS>> \o DumpElems(v.a, 1) \o <<RS>>
      [] v.t = "obj" -> <<LB>> \o DumpMembers(v.o, 1) \o <<RB>>
      [] OTHER -> <<TXT("null")>>

\* calendar events as the final task is told to write them
EventWithAttendees ==
    JObj(<<Pair("title", JStr("Due Diligence Kickoff")),
           Pair("attendees", JArr(<<JStr("partner@vc.com")>>))>>)
EventPlain ==
    JObj(<<Pair("title", JStr("IC Meeting")),
           Pair("start_time", JStr("2026-01-01T14:00:00"))>>)

EventList(n) == [i \in 1..n |-> IF i % 2 = 1 THEN EventWithAttendees ELSE EventPlain]

MakeDecision(d, reasoning, events) ==
    JObj(<<Pair("decision", JStr(d)),
           Pair("reasoning", JStr(reasoning)),
           Pair("investment_memo", JStr("memo")),
           Pair("calendar_events", JArr(events))>>)

DecisionValues == {"PASS", "MAYBE", "INVEST"}
WrittenValues == DecisionValues \cup {"invest", "strong buy"}
Reasonings == {"strong case", "uncertain outlook"}

\* what the lead partner may write as a decision object
WrittenDecisions ==
    {MakeDecision(d, r, EventList(n)) : d \in WrittenValues, r \in Reasonings, n \in 0..MaxEvents}

\* a decision object without one of its fields
DropField(v, key) == JObj(SelectSeq(v.o, LAMBDA p : p.k # key))

Prefixes(t) == {SubSeq(t, 1, n) : n \in 0..Len(t)}
Suffixes(t) == {SubSeq(t, n, Len(t)) : n \in 1..Len(t)}

\* final outputs: the JSON text, with prose around it, truncated at either
\* end, with a field missing, and plain prose
FuzzInputs ==
    UNION {Prefixes(Dump(v)) \cup Suffixes(Dump(v)) : v \in WrittenDecisions}
    \cup {<<TXT("Final Answer:")>> \o Dump(v) \o <<TXT("end")>> : v \in WrittenDecisions}
    \cup {Dump(DropField(v, k)) : v \in WrittenDecisions,
            k \in {"decision", "reasoning", "calendar_events"}}
    \cup {<<TXT("I recommend to invest")>>, <<LB, RB>>, <<RB, LB>>}

\* ------------------------------------------------------------------------
\* State
\* ------------------------------------------------------------------------
SessionIds == {"s1", "s2"}          \* session ids a client may name
AnalysisIds == {"s1"}               \* ids uuid4 hands to start_analysis
Listeners == 1..MaxListeners        \* SSE connections (one queue each)
RunListeners == {1}                 \* connections open while an analysis runs
OAuthIds == 1..MaxOAuth             \* ids the provider gives to OAuth sessions

VARIABLES
    TASKS_AVAILABLE,         \* module flag: TRUE when the task modules import
                             \* (line 44), FALSE in the ImportError branch (48)
    sessions,                \* orchestrator.sessions: id -> session dict
    task_to_agent_map,       \* orchestrator.task_to_agent_map
    current_task_index,      \* orchestrator.current_task_index
    run,                     \* the _run_analysis coroutine of each analysis
    crew,                    \* the crew.kickoff worker thread of each analysis
    session_queues,          \* sse_manager.session_queues: id -> list of queues
    queues,                  \* content of the asyncio.Queue of each connection
    stream,                  \* the event_generator of each connection
    published,               \* history: the events broadcast was called with
    oauth_sessions,          \* mcp client _oauth_sessions: service -> session
    pending_oauth_sessions,  \* mcp client _pending_oauth_sessions (ids)
    provider,                \* the OAuth sessions that exist at Metorial
    calendar_calls,          \* history: calendar_tool._arun calls and outcomes
    response,                \* the last response of an OAuth route
    raw_input,               \* extraction on its own: the raw final output
    extracted                \* extraction on its own: the outcome

vars == <<TASKS_AVAILABLE, sessions, task_to_agent_map, current_task_index, run, crew,
          session_queues, queues, stream, published, oauth_sessions,
          pending_oauth_sessions, provider, calendar_calls, response, raw_input,
          extracted>>

orchVars == <<TASKS_AVAILABLE, sessions, task_to_agent_map, current_task_index, run, crew>>
busVars == <<session_queues, queues, stream, published>>
oauthVars == <<oauth_sessions, pending_oauth_sessions, provider, response>>
extractVars == <<raw_input, extracted>>

\* ------------------------------------------------------------------------
\* SSE manager (api/sse.py)
\* ------------------------------------------------------------------------
Msg(type, tag, agent, data) == [type |-> type, tag |-> tag, agent |-> agent, data |-> data]

PhaseChange(phase) == Msg("phase_change", phase, "", JNone)
AgentMessage(agent, text, message_type) ==
    Msg("agent_message", message_type, agent, [t |-> "text", s |-> text])
\* a decision event that carries no payload
DecisionMsg_without_payload(decision) == Msg("decision", "", "", JNone)
DecisionMsg(decision) == Msg("decision", "", "", decision)
ErrorMsg(code) == Msg("error", code, "", JNone)
OAuthRequest(mcp_name, id) == Msg("oauth_request", mcp_name, "", [t |-> "oauth", id |-> id])

InList(list, x) == \E i \in 1..Len(list) : list[i] = x

\* list.remove(x): removes the first occurrence
RemoveFirst(list, x) ==
    LET i == CHOOSE i \in 1..Len(list) : list[i] = x /\ \A j \in 1..(i - 1) : list[j] # x
    IN SubSeq(list, 1, i - 1) \o SubSeq(list, i + 1, Len(list))

\* subscribe creates each queue as asyncio.Queue(): maxsize 0, which asyncio
\* reads as "no limit" (Queue.full() is then always false)
QueueMaxsize == 0

\* SSEManager.subscribe: session_queues after queue q subscribes to sid
Subscribed(sq, sid, q) ==
    IF sid \in DOMAIN sq
    THEN [sq EXCEPT ![sid] = Append(@, q)]
    ELSE [x \in DOMAIN sq \cup {sid} |-> IF x = sid THEN <<q>> ELSE sq[x]]

\* an unsubscribe that keeps the entry of a session without queues
Unsubscribed_keeping_entry(sq, sid, q) ==
    IF sid \in DOMAIN sq /\ InList(sq[sid], q) THEN [sq EXCEPT ![sid] = RemoveFirst(sq[sid], q)]
    ELSE sq

\* an unsubscribe that drops the whole entry of the session
Unsubscribed_dropping_session(sq, sid, q) == [x \in DOMAIN sq \ {sid} |-> sq[x]]

\* SSEManager.unsubscribe: session_queues after queue q leaves sid
Unsubscribed(sq, sid, q) ==
    IF sid \in DOMAIN sq /\ InList(sq[sid], q)
    THEN LET rest == RemoveFirst(sq[sid], q) IN
         IF rest = <<>> THEN [x \in DOMAIN sq \ {sid} |-> sq[x]]
         ELSE [sq EXCEPT ![sid] = rest]
    ELSE sq

\* a broadcast that stops after the first queue of the session
BroadcastQueues_first_only(sq, qs, sid, msgs) ==
    IF sid \notin DOMAIN sq THEN qs
    ELSE [q \in DOMAIN qs |-> IF sq[sid][1] = q THEN qs[q] \o msgs ELSE qs[q]]

\* a broadcast that puts the messages twice when the session has more than
\* one subscriber
BroadcastQueues_twice(sq, qs, sid, msgs) ==
    IF sid \notin DOMAIN sq THEN qs
    ELSE [q \in DOMAIN qs |->
            IF InList(sq[sid], q)
            THEN qs[q] \o msgs \o (IF Len(sq[sid]) > 1 THEN msgs ELSE <<>>)
            ELSE qs[q]]

\* a broadcast that reaches the subscribers of every session
BroadcastQueues_all_sessions(sq, qs, sid, msgs) ==
    [q \in DOMAIN qs |->
        IF \E x \in DOMAIN sq : InList(sq[x], q) THEN qs[q] \o msgs ELSE qs[q]]

\* SSEManager.broadcast, once for each message of msgs in order: the queues
BroadcastQueues(sq, qs, sid, msgs) ==
    IF sid \notin DOMAIN sq THEN qs
    ELSE [q \in DOMAIN qs |-> IF InList(sq[sid], q) THEN qs[q] \o msgs ELSE qs[q]]

\* a publish that registers the session when it has no subscriber
Publish_registering(sid, msgs) ==
    /\ queues' = BroadcastQueues(session_queues, queues, sid, msgs)
    /\ published' = [published EXCEPT ![sid] = @ \o msgs]
    /\ session_queues' = IF sid \in DOMAIN session_queues THEN session_queues
                         ELSE [x \in DOMAIN session_queues \cup {sid} |->
                                 IF x = sid THEN <<>> ELSE session_queues[x]]
    /\ UNCHANGED stream

\* the calls of broadcast (and of the send_* helpers) made in one step of
\* the event loop; queue.put on an unbounded queue never suspends
Publish(sid, msgs) ==
    /\ queues' = BroadcastQueues(session_queues, queues, sid, msgs)
    /\ published' = [published EXCEPT ![sid] = @ \o msgs]
    /\ UNCHANGED <<session_queues, stream>>

\* a caller of sse_manager.broadcast other than the orchestrator
BusMessages == {PhaseChange("completed"), AgentMessage("system", "info", "info")}

TotalPublished == Len(published["s1"]) + Len(published["s2"])

Broadcast(sid, m) ==
    /\ TotalPublished < MaxPublish
    /\ Publish(sid, <<m>>)
    /\ UNCHANGED <<orchVars, oauthVars, calendar_calls, extractVars>>

\* a subscribe that replays the events the session has published so far
Connect_replaying(l, sid) ==
    /\ stream[l].pc = "new"
    /\ session_queues' = Subscribed(session_queues, sid, l)
    /\ queues' = [queues EXCEPT ![l] = published[sid]]
    /\ stream' = [stream EXCEPT ![l] = [pc |-> "streaming", sid |-> sid,
                                        subAt |-> Len(published[sid]), received |-> <<>>,
                                        pinged |-> FALSE]]
    /\ UNCHANGED <<published, orchVars, oauthVars, calendar_calls, extractVars>>

\* stream_events / event_generator: subscribe and yield 'connected'
Connect(l, sid) ==
    /\ stream[l].pc = "new"
    /\ session_queues' = Subscribed(session_queues, sid, l)
    /\ queues' = [queues EXCEPT ![l] = <<>>]
    /\ stream' = [stream EXCEPT ![l] = [pc |-> "streaming", sid |-> sid,
                                        subAt |-> Len(published[sid]), received |-> <<>>,
                                        pinged |-> FALSE]]
    /\ UNCHANGED <<published, orchVars, oauthVars, calendar_calls, extractVars>>

\* queue.get() returns within the timeout and the message is yielded
Receive(l) ==
    /\ stream[l].pc = "streaming"
    /\ queues[l] # <<>>
    /\ queues' = [queues EXCEPT ![l] = Tail(@)]
    /\ stream' = [stream EXCEPT ![l].received = Append(@, Head(queues[l]))]
    /\ UNCHANGED <<session_queues, published, orchVars, oauthVars, calendar_calls, extractVars>>

\* ping_interval has passed since the last ping: the loop yields a ping frame
\* (lines 154-158); pinged records that the stream has yielded one
Ping(l) ==
    /\ stream[l].pc = "streaming"
    /\ stream' = [stream EXCEPT ![l].pinged = TRUE]
    /\ UNCHANGED <<session_queues, queues, published, orchVars, oauthVars, calendar_calls,
                   extractVars>>

\* the client disconnected or the generator was cancelled: finally unsubscribe
StreamEnd(l) ==
    /\ stream[l].pc = "streaming"
    /\ session_queues' = Unsubscribed(session_queues, stream[l].sid, l)
    /\ stream' = [stream EXCEPT ![l] = [pc |-> "closed", sid |-> "", subAt |-> 0,
                                        received |-> <<>>, pinged |-> FALSE]]
    /\ queues' = [queues EXCEPT ![l] = <<>>]    \* the queue object is dropped
    /\ UNCHANGED <<published, orchVars, oauthVars, calendar_calls, extractVars>>

\* ------------------------------------------------------------------------
\* Metorial client (tools/mcp_client.py) and OAuth routes (api/oauth_routes.py)
\* ------------------------------------------------------------------------
\* MetorialClient.oauth_required; every deployment id is configured
oauth_required == [gcalendar |-> TRUE, github |-> TRUE, exa |-> FALSE]
Services == DOMAIN oauth_required

NoOAuth == 0

\* create_oauth_session(mcp_name, auto_wait=False): the outcome and the new
\* values of _pending_oauth_sessions and of the provider's sessions.
\* metorial.oauth.sessions.create fails when the provider has no id left.
create_oauth_session(mcp_name, pend, prov) ==
    LET free == {i \in OAuthIds : prov[i].state = "none"}
        id == CHOOSE i \in free : \A j \in free : i <= j
    IN IF ~oauth_required[mcp_name]
       THEN [raised |-> TRUE, id |-> NoOAuth, url |-> FALSE, completed |-> FALSE,
             pend |-> pend, prov |-> prov]
       ELSE IF oauth_sessions[mcp_name] # NoOAuth
       THEN [raised |-> FALSE, id |-> oauth_sessions[mcp_name], url |-> FALSE,
             completed |-> TRUE, pend |-> pend, prov |-> prov]
       ELSE IF free = {}
       THEN [raised |-> TRUE, id |-> NoOAuth, url |-> FALSE, completed |-> FALSE,
             pend |-> pend, prov |-> prov]
       ELSE [raised |-> FALSE, id |-> id, url |-> TRUE, completed |-> FALSE,
             pend |-> pend \cup {id},
             prov |-> [prov EXCEPT ![id] = [svc |-> mcp_name, state |-> "pending"]]]

Response(op, status, id) == [op |-> op, status |-> status, id |-> id]

\* an initiate that asks the provider for a new session on every call
initiate_oauth_always_creating(mcp_name) ==
    /\ \E id \in OAuthIds :
          /\ provider[id].state = "none"
          /\ provider' = [provider EXCEPT ![id] = [svc |-> mcp_name, state |-> "pending"]]
          /\ pending_oauth_sessions' = pending_oauth_sessions \cup {id}
          /\ response' = Response("initiate", "pending", id)
    /\ UNCHANGED <<oauth_sessions, orchVars, busVars, calendar_calls, extractVars>>

\* POST /oauth/initiate/{mcp_name}
initiate_oauth(mcp_name) ==
    /\ IF oauth_sessions[mcp_name] # NoOAuth
       THEN /\ response' = Response("initiate", "completed", oauth_sessions[mcp_name])
            /\ UNCHANGED <<pending_oauth_sessions, provider>>
       ELSE LET r == create_oauth_session(mcp_name, pending_oauth_sessions, provider) IN
            /\ pending_oauth_sessions' = r.pend
            /\ provider' = r.prov
            /\ response' = IF r.raised THEN Response("initiate", "http_error", NoOAuth)
                           ELSE Response("initiate", "pending", r.id)
    /\ UNCHANGED <<oauth_sessions, orchVars, busVars, calendar_calls, extractVars>>

\* what metorial.oauth.wait_for_completion does within the 0.5 s timeout
WaitOutcomes(id) ==
    {"timeout", "error_other", "error_keyword"}
    \cup (IF provider[id].state = "completed" THEN {"returned"} ELSE {})

\* GET /oauth/status/{oauth_session_id}?mcp_name=...
check_oauth_status(id, mcp_name, outcome) ==
    /\ IF oauth_sessions[mcp_name] # NoOAuth /\ oauth_sessions[mcp_name] = id
       THEN /\ response' = Response("status", "completed", id)
            /\ UNCHANGED <<oauth_sessions, pending_oauth_sessions>>
       ELSE IF id \in pending_oauth_sessions /\ outcome \in {"returned", "error_keyword"}
       THEN /\ oauth_sessions' = [oauth_sessions EXCEPT ![mcp_name] = id]
            /\ pending_oauth_sessions' = pending_oauth_sessions \ {id}
            /\ response' = Response("status", "completed", id)
       ELSE /\ response' = Response("status", "pending", id)
            /\ UNCHANGED <<oauth_sessions, pending_oauth_sessions>>
    /\ UNCHANGED <<provider, orchVars, busVars, calendar_calls, extractVars>>

CheckStatus(id, mcp_name) ==
    /\ provider[id].state # "none"
    /\ \E outcome \in WaitOutcomes(id) : check_oauth_status(id, mcp_name, outcome)

\* the user completes the authorization in the browser
UserAuthorize(id) ==
    /\ provider[id].state = "pending"
    /\ provider' = [provider EXCEPT ![id].state = "completed"]
    /\ UNCHANGED <<oauth_sessions, pending_oauth_sessions, response, orchVars, busVars,
                   calendar_calls, extractVars>>

\* ------------------------------------------------------------------------
\* The task graph built by _run_analysis (crew_orchestrator.py, lines 147-242)
\* ------------------------------------------------------------------------
NumTasks == 17

\* a task factory that does not hand its context argument to Task(...)
Task_without_context(agent, context) == [agent |-> agent, context |-> <<>>]

Task(agent, context) == [agent |-> agent, context |-> context]

\* the pipeline with a final task that is given the last round only
all_tasks_last_round_only == <<
    [agent |-> "Market Research Specialist", context |-> <<>>],
    [agent |-> "Bull Advocate", context |-> <<1>>],
    [agent |-> "Bear Advocate", context |-> <<1, 2>>],
    [agent |-> "Risk Assessor", context |-> <<1, 2, 3>>],
    [agent |-> "Founder Evaluator", context |-> <<>>],
    [agent |-> "Bull Advocate", context |-> <<5>>],
    [agent |-> "Bear Advocate", context |-> <<5, 6>>],
    [agent |-> "Risk Assessor", context |-> <<5, 6, 7>>],
    [agent |-> "Product Critic", context |-> <<>>],
    [agent |-> "Bull Advocate", context |-> <<9>>],
    [agent |-> "Bear Advocate", context |-> <<9, 10>>],
    [agent |-> "Market Research Specialist", context |-> <<9, 10, 11>>],
    [agent |-> "Financial Analyst", context |-> <<>>],
    [agent |-> "Bull Advocate", context |-> <<13>>],
    [agent |-> "Bear Advocate", context |-> <<13, 14>>],
    [agent |-> "Risk Assessor", context |-> <<13, 14, 15>>],
    [agent |-> "Lead Investment Partner", context |-> <<13, 14, 15, 16>>] >>

\* task_1 .. task_17 with the context lists the code passes, as task numbers
all_tasks == <<
    Task("Market Research Specialist", <<>>),
    Task("Bull Advocate", <<1>>),
    Task("Bear Advocate", <<1, 2>>),
    Task("Risk Assessor", <<1, 2, 3>>),
    Task("Founder Evaluator", <<>>),
    Task("Bull Advocate", <<5>>),
    Task("Bear Advocate", <<5, 6>>),
    Task("Risk Assessor", <<5, 6, 7>>),
    Task("Product Critic", <<>>),
    Task("Bull Advocate", <<9>>),
    Task("Bear Advocate", <<9, 10>>),
    Task("Market Research Specialist", <<9, 10, 11>>),
    Task("Financial Analyst", <<>>),
    Task("Bull Advocate", <<13>>),
    Task("Bear Advocate", <<13, 14>>),
    Task("Risk Assessor", <<13, 14, 15>>),
    Task("Lead Investment Partner",
         <<1, 2, 3, 4, 5, 6, 7, 8, 9, 10, 11, 12, 13, 14, 15, 16>>) >>

\* the attributes class Settings defines (config.py); the orchestrator reads
\* settings.max_task_output_chars, max_conclusion_chars and max_thought_chars
SettingsAttrs == {"openai_api_key", "anthropic_api_key", "llm_provider", "llm_model",
                  "metorial_api_key", "metorial_base_url", "mcp_apify_id", "mcp_github_id",
                  "mcp_hackernews_id", "mcp_gdrive_id", "mcp_gcalendar_id", "backend_host",
                  "backend_port", "cors_origins"}
HasSetting(name) == name \in SettingsAttrs

\* lines 313-328: one record per task; reading a missing setting raises
\* inside the try and the except branch stores an error record
CaptureOutput(i) ==
    IF HasSetting("max_task_output_chars")
    THEN [task_number |-> i, agent |-> all_tasks[i].agent, output |-> i, error |-> FALSE]
    ELSE [task_number |-> i, agent |-> "", output |-> 0, error |-> TRUE]

CaptureOutputs == [i \in 1..NumTasks |-> CaptureOutput(i)]

\* ------------------------------------------------------------------------
\* Orchestrator (services/crew_orchestrator.py)
\* ------------------------------------------------------------------------
Without(f, x) == [y \in DOMAIN f \ {x} |-> f[y]]
With(f, x, v) == [y \in DOMAIN f \cup {x} |-> IF y = x THEN v ELSE f[y]]

IsStr(v, str) == v.t = "str" /\ v.s = str

\* a new session that is not yet marked running
NewSession_pending == [status |-> "pending", result |-> JNone, has_task_outputs |-> FALSE,
                       task_outputs |-> <<>>, error |-> FALSE, message |-> FALSE]

NewSession == [status |-> "running", result |-> JNone, has_task_outputs |-> FALSE,
               task_outputs |-> <<>>, error |-> FALSE, message |-> FALSE]

IdleRun == [pc |-> "none", tasks |-> <<>>, decision |-> JNone, ev |-> 0,
            created_count |-> 0, waited |-> 0]
\* stepped is history: the kind of the last callback _step_callback has handled
IdleCrew == [state |-> "idle", done |-> 0, cbs |-> <<>>, raw |-> <<>>, stepped |-> "none"]

\* get_result(session_id): the snapshot, or None
\* a get_result that builds a snapshot for every id it is asked for
get_result_for_any_id(sid) ==
    [found |-> TRUE,
     session_id |-> sid,
     status |-> IF sid \in DOMAIN sessions THEN sessions[sid].status ELSE "unknown",
     result |-> IF sid \in DOMAIN sessions THEN sessions[sid].result ELSE JNone,
     task_outputs |-> <<>>,
     error |-> FALSE,
     message |-> FALSE]

NotFound == [found |-> FALSE]
get_result(sid) ==
    IF sid \notin DOMAIN sessions THEN NotFound
    ELSE [found |-> TRUE,
          session_id |-> sid,
          status |-> sessions[sid].status,
          result |-> sessions[sid].result,
          task_outputs |-> IF sessions[sid].has_task_outputs
                           THEN sessions[sid].task_outputs ELSE <<>>,
          error |-> sessions[sid].error,
          message |-> sessions[sid].message]

\* start_analysis: a new session and its background task
start_analysis(sid) ==
    /\ run[sid].pc = "none"
    /\ sessions' = With(sessions, sid, NewSession)
    /\ run' = [run EXCEPT ![sid].pc = "sleep"]
    /\ UNCHANGED <<TASKS_AVAILABLE, task_to_agent_map, current_task_index, crew, busVars,
                   oauthVars, calendar_calls, extractVars>>

\* clear_session
clear_session(sid) ==
    /\ sid \in DOMAIN sessions
    /\ sessions' = Without(sessions, sid)
    /\ UNCHANGED <<TASKS_AVAILABLE, task_to_agent_map, current_task_index, run, crew, busVars,
                   oauthVars, calendar_calls, extractVars>>

\* the except block of _run_analysis (lines 508-530), entered after the try
\* block published pre and left the session map as sess and the run as r
Failed(sid, pre, sess, r) ==
    IF sid \in DOMAIN sess
    THEN /\ sessions' = [sess EXCEPT ![sid].status = "failed", ![sid].error = TRUE]
         /\ task_to_agent_map' = Without(task_to_agent_map, sid)
         /\ current_task_index' = Without(current_task_index, sid)
         /\ Publish(sid, pre \o <<ErrorMsg("ANALYSIS_ERROR"), PhaseChange("failed")>>)
         /\ run' = [run EXCEPT ![sid] = [r EXCEPT !.pc = "done"]]
    ELSE \* KeyError at line 510: the coroutine ends with an unhandled exception
         /\ sessions' = sess
         /\ UNCHANGED <<task_to_agent_map, current_task_index>>
         /\ Publish(sid, pre)
         /\ run' = [run EXCEPT ![sid] = [r EXCEPT !.pc = "crashed"]]

SetupMessages == <<PhaseChange("initializing"), AgentMessage("system", "starting", "info")>>

RoundPhases == <<PhaseChange("market_discussion"), PhaseChange("team_discussion"),
                 PhaseChange("product_discussion"), PhaseChange("financial_discussion"),
                 PhaseChange("final_decision")>>

\* lines 107-289: from the end of the initial sleep to the start of kickoff
RunSetup(sid, agents_ok) ==
    /\ run[sid].pc = "sleep"
    /\ UNCHANGED <<TASKS_AVAILABLE, oauthVars, calendar_calls, extractVars>>
    /\ IF ~agents_ok
       THEN /\ Failed(sid, SetupMessages, sessions, run[sid])
            /\ UNCHANGED crew
       ELSE IF ~TASKS_AVAILABLE
       THEN IF sid \in DOMAIN sessions
            THEN /\ sessions' = [sessions EXCEPT ![sid].status = "pending_tasks",
                                                 ![sid].message = TRUE]
                 /\ Publish(sid, SetupMessages \o <<ErrorMsg("TASKS_NOT_READY")>>)
                 /\ run' = [run EXCEPT ![sid].pc = "done"]
                 /\ UNCHANGED <<task_to_agent_map, current_task_index, crew>>
            ELSE /\ Failed(sid, SetupMessages \o <<ErrorMsg("TASKS_NOT_READY")>>,
                           sessions, run[sid])
                 /\ UNCHANGED crew
       ELSE /\ task_to_agent_map' =
                With(task_to_agent_map, sid, [i \in 1..NumTasks |-> all_tasks[i].agent])
            /\ current_task_index' = With(current_task_index, sid, 0)
            /\ Publish(sid, SetupMessages \o RoundPhases
                            \o <<AgentMessage("system", "initiating", "info")>>)
            /\ run' = [run EXCEPT ![sid].pc = "kickoff", ![sid].tasks = all_tasks]
            /\ crew' = [crew EXCEPT ![sid].state = "running"]
            /\ UNCHANGED sessions

\* ---- the crew.kickoff worker thread and its step callbacks ----
\* the step outputs _step_callback tells apart: an AgentFinish with more than
\* 100 characters, a thought of more than 20, and every other step (no message)
CallbackKinds == {"finish_long", "thought", "other"}

\* a task of the crew completes in the worker thread (task.output is set)
CrewStep(sid) ==
    /\ crew[sid].state = "running"
    /\ crew[sid].done < NumTasks
    /\ crew' = [crew EXCEPT ![sid].done = @ + 1]
    /\ UNCHANGED <<TASKS_AVAILABLE, sessions, task_to_agent_map, current_task_index, run,
                   busVars, oauthVars, calendar_calls, extractVars>>

\* the task after the completed ones fails: kickoff raises
CrewFail(sid) ==
    /\ crew[sid].state = "running"
    /\ crew[sid].done < NumTasks
    /\ crew' = [crew EXCEPT ![sid].state = "raised"]
    /\ UNCHANGED <<TASKS_AVAILABLE, sessions, task_to_agent_map, current_task_index, run,
                   busVars, oauthVars, calendar_calls, extractVars>>

\* step_callback_sync in the worker thread: run_coroutine_threadsafe
\* schedules _step_callback on the event loop and returns
WorkerCallback(sid, kind) ==
    /\ crew[sid].state = "running"
    /\ Len(crew[sid].cbs) < MaxPendingCallbacks
    /\ crew' = [crew EXCEPT ![sid].cbs = Append(@, kind)]
    /\ UNCHANGED <<TASKS_AVAILABLE, sessions, task_to_agent_map, current_task_index, run,
                   busVars, oauthVars, calendar_calls, extractVars>>

\* _step_callback (lines 532-599) for the oldest scheduled callback.  Reading
\* a setting that class Settings lacks raises AttributeError, which the
\* except clause at line 598 swallows.
StepCallback_advancing_on_thought(sid) ==
    /\ crew[sid].cbs # <<>>
    /\ crew' = [crew EXCEPT ![sid].cbs = Tail(@), ![sid].stepped = Head(crew[sid].cbs)]
    /\ current_task_index' =
          IF Head(crew[sid].cbs) = "thought" /\ sid \in DOMAIN current_task_index
          THEN With(current_task_index, sid, current_task_index[sid] + 1)
          ELSE current_task_index
    /\ UNCHANGED <<TASKS_AVAILABLE, sessions, task_to_agent_map, run, busVars, oauthVars,
                   calendar_calls, extractVars>>

StepCallback(sid) ==
    /\ crew[sid].cbs # <<>>
    /\ crew' = [crew EXCEPT ![sid].cbs = Tail(@), ![sid].stepped = Head(crew[sid].cbs)]
    /\ LET kind == Head(crew[sid].cbs)
           task_index == IF sid \in DOMAIN current_task_index
                         THEN current_task_index[sid] ELSE 0
           task_map == IF sid \in DOMAIN task_to_agent_map
                       THEN task_to_agent_map[sid] ELSE <<>>
           agent_name == IF task_index < Len(task_map) THEN task_map[task_index + 1]
                         ELSE "unknown"
       IN IF kind = "finish_long" /\ HasSetting("max_conclusion_chars")
          THEN /\ Publish(sid, <<AgentMessage(agent_name, "conclusion", "conclusion")>>)
               /\ current_task_index' =
                     IF task_index < 16 THEN With(current_task_index, sid, task_index + 1)
                     ELSE current_task_index
          ELSE IF kind = "thought" /\ HasSetting("max_thought_chars")
          THEN /\ Publish(sid, <<AgentMessage(agent_name, "thought", "thought")>>)
               /\ UNCHANGED current_task_index
          ELSE UNCHANGED <<busVars, current_task_index>>
    /\ UNCHANGED <<TASKS_AVAILABLE, sessions, task_to_agent_map, run, oauthVars,
                   calendar_calls, extractVars>>

\* ---- the calendar step (_create_calendar_events, lines 601-742) ----
LeadPartner == "Lead Investment Partner"

\* what "for event in calendar_events" iterates over
Elems(ce) ==
    CASE ce.t = "arr" -> ce.a
      [] ce.t = "obj" -> [i \in 1..Len(ce.o) |-> JStr(ce.o[i].k)]
      [] OTHER -> <<JStr("c")>>

EventFailed == AgentMessage(LeadPartner, "could_not_create", "warning")
EventCreated == AgentMessage(LeadPartner, "event_created", "info")
SetupComplete(c, n) == Msg("agent_message", "success", LeadPartner, [t |-> "count", c |-> c, n |-> n])

\* the loop from event i up to its next suspension point (the sleep of the
\* OAuth wait or the call of calendar_tool._arun) or to the end of the step;
\* st holds the messages sent so far in this step of the event loop, the
\* client's pending sessions, the provider's sessions and the coroutine
RECURSIVE EventIter(_, _, _)
EventIter(st, i, elems) ==
    IF i > Len(elems)
    THEN [st EXCEPT !.msgs = @ \o <<SetupComplete(st.r.created_count, Len(elems))>>,
                    !.r.pc = "finish"]
    ELSE IF elems[i].t # "obj"
    THEN \* event.get raises in the try and again in its handler (line 717)
         [st EXCEPT !.msgs = @ \o <<AgentMessage(LeadPartner, "calendar_error", "warning")>>,
                    !.r.pc = "finish"]
    ELSE IF oauth_sessions["gcalendar"] # NoOAuth
    THEN [st EXCEPT !.r.pc = "arun", !.r.ev = i]
    ELSE LET o == create_oauth_session("gcalendar", st.pend, st.prov) IN
         IF o.raised
         THEN EventIter([st EXCEPT !.msgs = @ \o <<EventFailed>>], i + 1, elems)
         ELSE [st EXCEPT !.pend = o.pend, !.prov = o.prov,
                         !.msgs = @ \o <<OAuthRequest("gcalendar", o.id),
                                         AgentMessage(LeadPartner, "auth_required", "warning")>>,
                         !.r.pc = "oauth_wait", !.r.ev = i, !.r.waited = 0]

\* lines 495-496: the calendar step is entered when calendar_events is truthy
CalendarEntry(st) ==
    LET ce == Get(st.r.decision, "calendar_events") IN
    IF Truthy(ce)
    THEN EventIter([st EXCEPT !.msgs = @ \o <<AgentMessage(LeadPartner, "creating", "info")>>],
                   1, Elems(ce))
    ELSE [st EXCEPT !.r.pc = "finish"]

Local(msgs, r) == [msgs |-> msgs, pend |-> pending_oauth_sessions, prov |-> provider, r |-> r]

\* the end of a step of the coroutine after the decision was stored; at
\* "finish" lines 497-506 follow in the same step
CommitTail(sid, local, sess) ==
    \E st \in {local} :
        /\ sessions' = sess
        /\ pending_oauth_sessions' = st.pend
        /\ provider' = st.prov
        /\ IF st.r.pc = "finish"
           THEN /\ Publish(sid, st.msgs \o <<PhaseChange("completed")>>)
                /\ task_to_agent_map' = Without(task_to_agent_map, sid)
                /\ current_task_index' = Without(current_task_index, sid)
                /\ run' = [run EXCEPT ![sid] = [st.r EXCEPT !.pc = "done"]]
           ELSE /\ Publish(sid, st.msgs)
                /\ UNCHANGED <<task_to_agent_map, current_task_index>>
                /\ run' = [run EXCEPT ![sid] = st.r]

UncertaintyTexts == {"uncertain outlook"}

\* lines 286-497: kickoff has returned or raised and the callbacks scheduled
\* before are done
AfterKickoff(sid) ==
    /\ run[sid].pc = "kickoff"
    /\ crew[sid].state \in {"returned", "raised"}
    /\ crew[sid].cbs = <<>>
    /\ UNCHANGED <<TASKS_AVAILABLE, crew, oauth_sessions, response, calendar_calls, extractVars>>
    /\ \E x \in {ExtractDecision(crew[sid].raw)} :
       IF crew[sid].state = "raised" \/ x.exc \/ sid \notin DOMAIN sessions
       THEN /\ Failed(sid, <<>>, sessions, run[sid])
            /\ UNCHANGED <<pending_oauth_sessions, provider>>
       ELSE LET d == x.decision
                sess1 == [sessions EXCEPT ![sid].status = "completed",
                                          ![sid].result = d,
                                          ![sid].has_task_outputs = TRUE,
                                          ![sid].task_outputs = CaptureOutputs]
                r1 == [run[sid] EXCEPT !.decision = d]
                sent == <<DecisionMsg(d)>>
                reasoning == Get(d, "reasoning")
            IN IF ~IsStr(Get(d, "decision"), "MAYBE")
               THEN CommitTail(sid, CalendarEntry(Local(sent, r1)), sess1)
               ELSE IF reasoning.t \notin {"str", "none"}
               THEN \* reasoning.lower() raises after the session was completed
                    /\ Failed(sid, sent, sess1, r1)
                    /\ UNCHANGED <<pending_oauth_sessions, provider>>
               ELSE IF reasoning.t = "str" /\ Lower(reasoning.s) \in UncertaintyTexts
               THEN CommitTail(sid,
                        Local(sent \o <<AgentMessage("lead_partner", "recommend_researcher",
                                                     "reasoning")>>,
                              [r1 EXCEPT !.pc = "freelancer"]), sess1)
               ELSE CommitTail(sid, CalendarEntry(Local(sent, r1)), sess1)

\* generate_freelancer_job_content returned (lines 474-486) or raised (488)
Freelancer(sid, ok) ==
    /\ run[sid].pc = "freelancer"
    /\ UNCHANGED <<TASKS_AVAILABLE, crew, oauth_sessions, response, calendar_calls, extractVars>>
    /\ CommitTail(sid,
          CalendarEntry(Local(IF ok THEN <<Msg("freelancer_job_notification", "", "", JNone)>>
                              ELSE <<>>, run[sid])),
          sessions)

\* an OAuth wait that goes on to create the event when the wait has timed out
OAuthWake_no_timeout_raise(sid) ==
    /\ run[sid].pc = "oauth_wait"
    /\ UNCHANGED <<TASKS_AVAILABLE, crew, oauth_sessions, response, calendar_calls, extractVars>>
    /\ LET r == [run[sid] EXCEPT !.waited = @ + 1]
       IN IF oauth_sessions["gcalendar"] # NoOAuth \/ r.waited >= MaxWaitTicks
          THEN CommitTail(sid, Local(<<>>, [r EXCEPT !.pc = "arun"]), sessions)
          ELSE CommitTail(sid, Local(<<>>, r), sessions)

\* asyncio.sleep(wait_interval) of the OAuth wait returned (lines 688-694)
OAuthWake(sid) ==
    /\ run[sid].pc = "oauth_wait"
    /\ UNCHANGED <<TASKS_AVAILABLE, crew, oauth_sessions, response, calendar_calls, extractVars>>
    /\ LET r == [run[sid] EXCEPT !.waited = @ + 1]
           cached == oauth_sessions["gcalendar"] # NoOAuth
           elems == Elems(Get(r.decision, "calendar_events"))
       IN IF cached
          THEN CommitTail(sid, Local(<<>>, [r EXCEPT !.pc = "arun"]), sessions)
          ELSE IF r.waited < MaxWaitTicks
          THEN CommitTail(sid, Local(<<>>, r), sessions)
          ELSE CommitTail(sid, EventIter(Local(<<EventFailed>>, r), r.ev + 1, elems), sessions)

\* calendar_tool._arun returned: it catches every error and returns a text
ArunOutcomes == {"created", "error_text"}

ArunDone(sid, outcome) ==
    /\ run[sid].pc = "arun"
    /\ calendar_calls' = Append(calendar_calls, [sid |-> sid, ev |-> run[sid].ev, outcome |-> outcome])
    /\ UNCHANGED <<TASKS_AVAILABLE, crew, oauth_sessions, response, extractVars>>
    /\ LET r == [run[sid] EXCEPT !.created_count = @ + 1]
           elems == Elems(Get(r.decision, "calendar_events"))
       IN CommitTail(sid, EventIter(Local(<<EventCreated>>, r), r.ev + 1, elems), sessions)

\* ---- the final outputs an analysis may end with ----
BrokenEvents ==
    <<LB, S("decision"), COLON, S("INVEST"), COMMA, S("calendar_events"), COLON, LS,
      LB, S("title"), COLON, S("IC Meeting"), COMMA, S("attendees"), COLON, LS,
      S("partner@vc.com"), RS, RB, RS>>

\* a MAYBE decision whose reasoning is a list of paragraphs
ReasoningAsList ==
    JObj(<<Pair("decision", JStr("MAYBE")),
           Pair("reasoning", JArr(<<JStr("uncertain outlook")>>)),
           Pair("investment_memo", JStr("memo")),
           Pair("calendar_events", JArr(<<>>))>>)

FinalOutputs ==
    {Dump(MakeDecision("PASS", "strong case", <<>>)),
     Dump(MakeDecision("MAYBE", "uncertain outlook", EventList(1))),
     Dump(MakeDecision("INVEST", "strong case", EventList(2))),
     Dump(MakeDecision("PASS", "strong case", EventList(1))),
     Dump(MakeDecision("invest", "strong case", <<>>)),
     Dump(MakeDecision("INVEST", "strong case", <<JStr("call the founder"), EventPlain>>)),
     Dump(DropField(MakeDecision("PASS", "strong case", <<>>), "decision")),
     Dump(ReasoningAsList),
     <<TXT("I recommend to invest")>>,
     BrokenEvents,
     <<>>}

\* crew.kickoff returns the CrewOutput of the last task
CrewReturn(sid, raw) ==
    /\ crew[sid].state = "running"
    /\ crew[sid].done = NumTasks
    /\ crew' = [crew EXCEPT ![sid].state = "returned", ![sid].raw = raw]
    /\ UNCHANGED <<TASKS_AVAILABLE, sessions, task_to_agent_map, current_task_index, run,
                   busVars, oauthVars, calendar_calls, extractVars>>

\* ---- the extraction applied on its own to raw_input ----
ApplyExtract ==
    /\ extracted.state = "idle"
    /\ extracted' = [state |-> "applied", out |-> ExtractDecision(raw_input)]
    /\ UNCHANGED <<raw_input, orchVars, busVars, oauthVars, calendar_calls>>

\* ------------------------------------------------------------------------
\* Specifications
\* ------------------------------------------------------------------------
EmptyFn == [x \in {} |-> 0]

InitCommon ==
    /\ sessions = EmptyFn
    /\ task_to_agent_map = EmptyFn
    /\ current_task_index = EmptyFn
    /\ run = [sid \in AnalysisIds |-> IdleRun]
    /\ crew = [sid \in AnalysisIds |-> IdleCrew]
    /\ session_queues = EmptyFn
    /\ queues = [l \in Listeners |-> <<>>]
    /\ stream = [l \in Listeners |-> [pc |-> "new", sid |-> "", subAt |-> 0, received |-> <<>>,
                                       pinged |-> FALSE]]
    /\ published = [sid \in SessionIds |-> <<>>]
    /\ oauth_sessions = [svc \in Services |-> NoOAuth]
    /\ pending_oauth_sessions = {}
    /\ provider = [i \in OAuthIds |-> [svc |-> "", state |-> "none"]]
    /\ calendar_calls = <<>>
    /\ response = Response("none", "", NoOAuth)
    /\ extracted = [state |-> "idle", out |-> Returned(JNone)]

\* the server with one analysis, one SSE connection and the OAuth polling
Init ==
    /\ InitCommon
    /\ TASKS_AVAILABLE \in BOOLEAN
    /\ raw_input = <<>>

Next ==
    \/ \E sid \in AnalysisIds : start_analysis(sid)
    \/ \E sid \in AnalysisIds : clear_session(sid)
    \/ \E sid \in AnalysisIds, agents_ok \in BOOLEAN : RunSetup(sid, agents_ok)
    \/ \E sid \in AnalysisIds : CrewStep(sid)
    \/ \E sid \in AnalysisIds : CrewFail(sid)
    \/ \E sid \in AnalysisIds, kind \in CallbackKinds : WorkerCallback(sid, kind)
    \/ \E sid \in AnalysisIds : StepCallback(sid)
    \/ \E sid \in AnalysisIds, raw \in FinalOutputs : CrewReturn(sid, raw)
    \/ \E sid \in AnalysisIds : AfterKickoff(sid)
    \/ \E sid \in AnalysisIds, ok \in BOOLEAN : Freelancer(sid, ok)
    \/ \E sid \in AnalysisIds : OAuthWake(sid)
    \/ \E sid \in AnalysisIds, outcome \in ArunOutcomes : ArunDone(sid, outcome)
    \/ \E l \in RunListeners, sid \in AnalysisIds : Connect(l, sid)
    \/ \E l \in RunListeners : Receive(l)
    \/ \E l \in RunListeners : StreamEnd(l)
    \/ \E id \in OAuthIds : CheckStatus(id, "gcalendar")
    \/ \E id \in OAuthIds : UserAuthorize(id)

Spec == Init /\ [][Next]_vars

\* the SSE manager with any publisher and the keep-alive pings of the streams
InitBus ==
    /\ InitCommon
    /\ TASKS_AVAILABLE = TRUE
    /\ raw_input = <<>>

NextBus ==
    \/ \E l \in Listeners, sid \in SessionIds : Connect(l, sid)
    \/ \E l \in Listeners : Receive(l)
    \/ \E l \in Listeners : StreamEnd(l)
    \/ \E l \in Listeners : Ping(l)
    \/ \E sid \in SessionIds, m \in BusMessages : Broadcast(sid, m)

SpecBus == InitBus /\ [][NextBus]_vars

\* the OAuth routes with any client
NextOAuth ==
    \/ \E svc \in Services : initiate_oauth(svc)
    \/ \E id \in OAuthIds, svc \in Services : CheckStatus(id, svc)
    \/ \E id \in OAuthIds : UserAuthorize(id)

SpecOAuth == InitBus /\ [][NextOAuth]_vars

\* one analysis without calendar events and two SSE connections
StreamListeners == {1, 2}
QuietOutputs == {Dump(MakeDecision("PASS", "strong case", <<>>)), <<TXT("I recommend to invest")>>}

NextStreams ==
    \/ \E sid \in AnalysisIds : start_analysis(sid)
    \/ \E sid \in AnalysisIds, agents_ok \in BOOLEAN : RunSetup(sid, agents_ok)
    \/ \E sid \in AnalysisIds : CrewStep(sid)
    \/ \E sid \in AnalysisIds : CrewFail(sid)
    \/ \E sid \in AnalysisIds, raw \in QuietOutputs : CrewReturn(sid, raw)
    \/ \E sid \in AnalysisIds : AfterKickoff(sid)
    \/ \E l \in StreamListeners, sid \in AnalysisIds : Connect(l, sid)
    \/ \E l \in StreamListeners : Receive(l)
    \/ \E l \in StreamListeners : StreamEnd(l)

SpecStreams == Init /\ [][NextStreams]_vars

\* the extraction on every final output of FuzzInputs
InitExtract ==
    /\ InitCommon
    /\ TASKS_AVAILABLE = TRUE
    /\ raw_input \in FuzzInputs

SpecExtract == InitExtract /\ [][ApplyExtract]_vars

\* ------------------------------------------------------------------------
\* Properties
\* ------------------------------------------------------------------------
Last(seq) == seq[Len(seq)]
Ended(sid) == run[sid].pc \in {"done", "crashed"}

RoundStart(i) == 4 * ((i - 1) \div 4) + 1

\* C1: for every step i of rounds 1-4 (steps 1..16) the context is exactly
\* the earlier steps of the same round, in step order: empty for steps 1, 5,
\* 9 and 13, one step longer from each step to the next, never a step of
\* another round.
C1_RoundContexts ==
    \A sid \in AnalysisIds :
        run[sid].tasks # <<>> =>
            \A i \in 1..16 :
                LET ctx == run[sid].tasks[i].context IN
                /\ Len(ctx) = i - RoundStart(i)
                /\ \A j \in 1..Len(ctx) : ctx[j] = RoundStart(i) + j - 1

\* the crew built from the pipeline has run into the second round
C1_Witness ==
    \E sid \in AnalysisIds :
        run[sid].pc = "kickoff" /\ Len(run[sid].tasks) = NumTasks /\ crew[sid].done >= 6

\* C2: the context of the final step 17 is steps 1..16, each once, in order.
C2_FinalContext ==
    \A sid \in AnalysisIds :
        run[sid].tasks # <<>> =>
            LET ctx == run[sid].tasks[NumTasks].context IN
            /\ Len(ctx) = 16
            /\ \A j \in 1..Len(ctx) : ctx[j] = j

\* the final step of the built pipeline has completed
C2_Witness ==
    \E sid \in AnalysisIds :
        Len(run[sid].tasks) = NumTasks /\ crew[sid].state = "returned"

\* C3 (as claimed): after the StepRunner failed at step k the session is
\* failed and get_result holds the k-1 StepRecords of the completed steps.
C3_PartialRecordsKept ==
    \A sid \in AnalysisIds :
        (crew[sid].state = "raised" /\ Ended(sid) /\ sid \in DOMAIN sessions) =>
            /\ get_result(sid).status = "failed"
            /\ Len(get_result(sid).task_outputs) = crew[sid].done

IsTerminal(m) == m.type = "phase_change" /\ m.tag \in {"completed", "failed"}

\* C4 (as claimed): when the background run of an analysis has ended, the
\* events published for its session end with a terminal phase_change and
\* hold exactly one terminal phase_change.
C4_OneTerminalEvent ==
    \A sid \in AnalysisIds :
        Ended(sid) =>
            /\ published[sid] # <<>>
            /\ IsTerminal(Last(published[sid]))
            /\ Cardinality({i \in 1..Len(published[sid]) : IsTerminal(published[sid][i])}) = 1

C6_ExtractionNeverRaises ==
    extracted.state = "applied" => ~extracted.out.exc

ValidDecisions == {"PASS", "MAYBE", "INVEST", "ERROR"}

\* C7 (as claimed): the decision value of a stored result is one of PASS,
\* MAYBE, INVEST or ERROR, and no result lacks the decision field.
C7_DecisionValueValid ==
    \A sid \in DOMAIN sessions :
        sessions[sid].result.t # "none" =>
            LET d == Get(sessions[sid].result, "decision") IN
            d.t = "str" /\ d.s \in ValidDecisions

EventCount(result) ==
    LET ce == Get(result, "calendar_events") IN
    IF ce.t = "arr" THEN Len(ce.a) ELSE 0

\* C8 (as claimed): a stored DecisionResult with PASS has 0 calendar
\* events, with MAYBE exactly 1, with INVEST 2 or 3.
C8_CalendarCounts ==
    \A sid \in DOMAIN sessions :
        LET res == sessions[sid].result IN
        /\ IsStr(Get(res, "decision"), "PASS") => EventCount(res) = 0
        /\ IsStr(Get(res, "decision"), "MAYBE") => EventCount(res) = 1
        /\ IsStr(Get(res, "decision"), "INVEST") => EventCount(res) \in {2, 3}

\* C9 (as claimed): at most one pending OAuth session is tracked for a
\* service at any time.
C9_OnePendingPerService ==
    \A svc \in Services :
        Cardinality({id \in pending_oauth_sessions : provider[id].svc = svc}) <= 1

\* C10: every registered subscriber holds, received or still queued and in
\* publish order, every message published to its session since it
\* subscribed.
C10_FanOutInOrder ==
    \A l \in Listeners :
        stream[l].pc = "streaming" =>
            stream[l].received \o queues[l] =
                SubSeq(published[stream[l].sid], stream[l].subAt + 1,
                       Len(published[stream[l].sid]))

\* two subscribers of one session have both received two different messages
C10_Witness ==
    \E l1, l2 \in Listeners :
        /\ l1 # l2
        /\ stream[l1].pc = "streaming" /\ stream[l2].pc = "streaming"
        /\ stream[l1].sid = stream[l2].sid
        /\ Len(stream[l1].received) >= 2 /\ Len(stream[l2].received) >= 2
        /\ stream[l1].received[1] # stream[l1].received[2]

\* C11: a publish to a session that has no registered subscriber leaves the
\* bus as it was: no entry of session_queues is created and no queue
\* receives anything.
C11_NoSubscriberNoOp ==
    [][\A sid \in SessionIds :
          (sid \notin DOMAIN session_queues /\ published'[sid] # published[sid]) =>
              (session_queues' = session_queues /\ queues' = queues)]_vars

\* messages were published to a session nobody ever subscribed to
C11_Witness ==
    \E sid \in SessionIds :
        /\ Len(published[sid]) >= 2
        /\ session_queues = EmptyFn
        /\ \A l \in Listeners : stream[l].pc = "new" /\ queues[l] = <<>>

HasTerminal(msgs) == \E i \in 1..Len(msgs) : IsTerminal(msgs[i])

\* C12 (as claimed): once a stream has yielded a terminal phase_change, the
\* server ends it: the stream yields nothing more, neither a message nor a
\* ping.
C12_StreamEndsAtTerminal ==
    [][\A l \in Listeners :
          (stream[l].pc = "streaming" /\ HasTerminal(stream[l].received)) =>
              \/ stream'[l].pc = "closed"
              \/ /\ stream'[l].received = stream[l].received
                 /\ stream'[l].pinged = stream[l].pinged]_vars

CallsOf(sid) == SelectSeq(calendar_calls, LAMBDA c : c.sid = sid)
FailedEvents(sid) == Len(SelectSeq(published[sid], LAMBDA m : m = EventFailed))

\* C14 (as claimed): when the run has completed, calendar_tool._arun was
\* called at most once for each event and in list order, and every one of
\* the n events of the decision was attempted: it was either handed to
\* _arun or reported as failed on its own.
C14_EveryEventAttempted ==
    \A sid \in AnalysisIds :
        (run[sid].pc = "done" /\ published[sid] # <<>>
            /\ Last(published[sid]) = PhaseChange("completed")) =>
            LET ce == Get(run[sid].decision, "calendar_events")
                n == IF Truthy(ce) THEN Len(Elems(ce)) ELSE 0
                calls == CallsOf(sid)
            IN /\ \A i, j \in 1..Len(calls) : i < j => calls[i].ev < calls[j].ev
               /\ Len(calls) + FailedEvents(sid) = n

\* C15 (as claimed): a session whose decision has been stored stays
\* completed: no later failure makes it failed.
C15_CompletedIsFinal ==
    \A sid \in DOMAIN sessions :
        sessions[sid].result.t # "none" => sessions[sid].status = "completed"

DecisionEvents(sid) == SelectSeq(published[sid], LAMBDA m : m.type = "decision")
Completes(sid) == InList(published[sid], PhaseChange("completed"))

\* C16 (as claimed): on a run that completes exactly one decision event is
\* published, before phase_change completed, and get_result returns the
\* published decision in every state from its publication on.
C16_DecisionKeptAlways ==
    \A sid \in AnalysisIds :
        LET ds == DecisionEvents(sid) IN
        /\ Len(ds) <= 1
        /\ Completes(sid) =>
              /\ Len(ds) = 1
              /\ \A i, j \in 1..Len(published[sid]) :
                    (published[sid][i].type = "decision"
                       /\ published[sid][j] = PhaseChange("completed")) => i < j
        /\ \A i \in 1..Len(ds) :
              /\ get_result(sid).found
              /\ get_result(sid).result = ds[i].data

\* C16 (amended): the same, with get_result returning the published decision
\* in every later state in which the session has not been cleared.
C16_DecisionKeptWhileStored ==
    \A sid \in AnalysisIds :
        LET ds == DecisionEvents(sid) IN
        /\ Len(ds) <= 1
        /\ Completes(sid) =>
              /\ Len(ds) = 1
              /\ \A i, j \in 1..Len(published[sid]) :
                    (published[sid][i].type = "decision"
                       /\ published[sid][j] = PhaseChange("completed")) => i < j
        /\ \A i \in 1..Len(ds) :
              get_result(sid).found => get_result(sid).result = ds[i].data

\* a run that completed after the calendar step, its session still stored
C16_Witness ==
    \E sid \in AnalysisIds :
        /\ run[sid].pc = "done"
        /\ Completes(sid)
        /\ InList(published[sid], EventCreated)
        /\ get_result(sid).found
        /\ get_result(sid).result = DecisionEvents(sid)[1].data

\* C17 (as claimed): while a session is running and k steps of the crew have
\* completed, get_result returns status running with exactly k StepRecords.
C17_RecordsWhileRunning ==
    \A sid \in AnalysisIds :
        (get_result(sid).found /\ get_result(sid).status = "running") =>
            Len(get_result(sid).task_outputs) = crew[sid].done

\* C18 (as claimed): once a run has ended, task_to_agent_map and
\* current_task_index hold no entry for its session, in every later state.
C18_NoTrackingAfterEnd ==
    \A sid \in AnalysisIds :
        Ended(sid) => /\ sid \notin DOMAIN task_to_agent_map
                      /\ sid \notin DOMAIN current_task_index

\* the well-formed decisions: decision in PASS, MAYBE, INVEST, with
\* reasoning, investment_memo and calendar_events
WellFormedDecisions ==
    {MakeDecision(d, r, EventList(n)) : d \in DecisionValues, r \in Reasonings, n \in 0..MaxEvents}

\* C19: for every well-formed decision, the extraction applied to its JSON
\* text returns a decision equal to the original field for field.
C19_RoundTrip ==
    \A v \in WellFormedDecisions :
        (extracted.state = "applied" /\ raw_input = Dump(v)) => extracted.out = Returned(v)

\* the extraction was applied to the text of a decision with calendar events
C19_Witness ==
    \E v \in WellFormedDecisions :
        /\ extracted.state = "applied"
        /\ raw_input = Dump(v)
        /\ Len(Get(v, "calendar_events").a) = MaxEvents
        /\ extracted.out = Returned(v)

PhaseOrder == <<PhaseChange("initializing")>> \o RoundPhases
PhaseEvents(sid) == SelectSeq(published[sid], LAMBDA m : m.type = "phase_change")

\* C20 (as claimed): the phase_change events come in the order initializing,
\* the five rounds, then completed or failed, and the event of round r is
\* published only after the last step of round r-1 has completed.
C20_PhaseAtRoundBoundary ==
    \A sid \in AnalysisIds :
        LET ph == PhaseEvents(sid) IN
        /\ \A i \in 1..Len(ph) :
              \/ i <= Len(PhaseOrder) /\ ph[i] = PhaseOrder[i]
              \/ i = Len(ph) /\ IsTerminal(ph[i])
        /\ \A r \in 2..Len(RoundPhases) :
              InList(published[sid], RoundPhases[r]) => crew[sid].done >= 4 * (r - 1)

\* an OAuth session that was tracked as pending and has been moved out of
\* the pending set (only check_oauth_status removes from it)
Moved(id) == provider[id].state # "none" /\ id \notin pending_oauth_sessions

\* C21 (as claimed): no session is both pending and cached as completed, and
\* a session the provider reports completed that poll has moved out of the
\* pending set is the cached completed session of its service, so that later
\* initiate and poll calls for it report completed.
C21_PollMovesToCompleted ==
    /\ \A id \in pending_oauth_sessions : \A svc \in Services : oauth_sessions[svc] # id
    /\ \A id \in OAuthIds :
          (Moved(id) /\ provider[id].state = "completed") =>
              oauth_sessions[provider[id].svc] = id

\* C22 (as claimed): a poll whose provider check times out or fails leaves
\* the pending set and the completed cache as they are, so the completed
\* session of a service is always one the provider reports completed.
C22_CompletedOnlyWhenProviderSays ==
    \A svc \in Services :
        oauth_sessions[svc] # NoOAuth => provider[oauth_sessions[svc]].state = "completed"

\* the wait of the calendar step for the current event ends in this step
WaitEnds(sid) ==
    /\ run[sid].pc = "oauth_wait"
    /\ run'[sid].pc # "oauth_wait" \/ run'[sid].ev # run[sid].ev

\* the user has completed a Google Calendar authorization at the provider
Authorized == \E id \in OAuthIds : provider[id].svc = "gcalendar" /\ provider[id].state = "completed"

\* C23 (as claimed): the wait for authorization never outlasts its bound, and
\* once the user has completed the authorization at the provider it ends
\* with the authorization present, that is with the creation of the event.
C23_WaitEndsAuthorized ==
    [][\A sid \in AnalysisIds :
          /\ run[sid].pc = "oauth_wait" => run[sid].waited < MaxWaitTicks
          /\ (WaitEnds(sid) /\ Authorized) => run'[sid].pc = "arun"]_vars

\* C24 (as claimed): when the final output holds no "decision": "<value>"
\* at all, the extraction returns the sentinel with decision ERROR and the
\* raw text cut to max_raw_output_chars.
C24_ErrorSentinel ==
    (extracted.state = "applied" /\ StrFieldMatch(raw_input, "decision") = 0) =>
        extracted.out = Returned(ErrorSentinel(raw_input))

Registered(sq, sid, q) == sid \in DOMAIN sq /\ InList(sq[sid], q)

\* C25: a step that ends a listener's stream unregisters its queue and
\* changes neither the sessions, the run and its crew, the step tracking and
\* the published events, nor the queue, the stream and the registration of
\* any other listener.
C25_StreamEndFrame ==
    [][\A l \in Listeners :
          (stream[l].pc = "streaming" /\ stream'[l].pc = "closed") =>
              /\ ~Registered(session_queues', stream[l].sid, l)
              /\ sessions' = sessions /\ run' = run /\ crew' = crew
              /\ task_to_agent_map' = task_to_agent_map
              /\ current_task_index' = current_task_index
              /\ published' = published
              /\ \A m \in Listeners \ {l} :
                    /\ queues'[m] = queues[m]
                    /\ stream'[m] = stream[m]
                    /\ \A sid \in SessionIds :
                          Registered(session_queues', sid, m) = Registered(session_queues, sid, m)]_vars

\* the stream of one listener has ended, and the run has completed with the
\* other listener of the session receiving every event it published
C25_Witness ==
    \E sid \in AnalysisIds :
        /\ stream[1].pc = "closed"
        /\ stream[2].pc = "streaming" /\ stream[2].sid = sid /\ stream[2].subAt = 0
        /\ Registered(session_queues, sid, 2)
        /\ run[sid].pc = "done"
        /\ stream[2].received = published[sid]
        /\ Completes(sid)

\* C26: no session has a bus entry with an empty subscriber list; in every
\* reachable state unsubscribe of a registered queue removes that queue and
\* no other and leaves no empty entry, and unsubscribe of a queue or a
\* session that is not registered changes nothing.
C26_UnsubscribeExact ==
    /\ \A sid \in DOMAIN session_queues : session_queues[sid] # <<>>
    /\ \A sid \in SessionIds, q \in Listeners :
          LET after == Unsubscribed(session_queues, sid, q) IN
          IF Registered(session_queues, sid, q)
          THEN /\ ~Registered(after, sid, q)
               /\ \A s \in SessionIds, m \in Listeners :
                     (s # sid \/ m # q) => Registered(after, s, m) = Registered(session_queues, s, m)
               /\ \A s \in DOMAIN after : after[s] # <<>>
               /\ (sid \in DOMAIN after) = (Len(session_queues[sid]) > 1)
          ELSE after = session_queues

\* every stream has ended and the bus has no entry left
C26_Witness ==
    /\ \A l \in Listeners : stream[l].pc = "closed"
    /\ session_queues = EmptyFn
    /\ \E sid \in SessionIds : Len(published[sid]) = MaxPublish

\* C27: what a subscriber has received or has in its queue was published
\* after its subscribe: its i-th message is the i-th event published to the
\* session since then, and nothing published before is delivered later.
C27_NoReplay ==
    \A l \in Listeners :
        stream[l].pc = "streaming" =>
            LET sid == stream[l].sid
                got == stream[l].received \o queues[l]
            IN /\ Len(got) <= Len(published[sid]) - stream[l].subAt
               /\ \A i \in 1..Len(got) : got[i] = published[sid][stream[l].subAt + i]

\* a listener that connected after the setup events of the run received the
\* decision as its first message
C27_Witness ==
    \E l \in Listeners, sid \in AnalysisIds :
        /\ stream[l].pc = "streaming" /\ stream[l].sid = sid
        /\ stream[l].subAt >= Len(SetupMessages \o RoundPhases)
        /\ stream[l].received # <<>>
        /\ stream[l].received[1].type = "decision"

\* C28: an initiate for a service whose completed session is cached answers
\* completed with that session, creates no session at the provider, and
\* leaves the completed cache and the pending set as they are.
C28_InitiateReusesCached ==
    [][\A svc \in Services :
          (oauth_sessions[svc] # NoOAuth /\ initiate_oauth(svc)) =>
              /\ response' = Response("initiate", "completed", oauth_sessions[svc])
              /\ provider' = provider
              /\ oauth_sessions' = oauth_sessions
              /\ pending_oauth_sessions' = pending_oauth_sessions]_vars

\* initiate has answered completed with the cached session of a service
\* whose authorization the provider reports completed
C28_Witness ==
    \E svc \in Services :
        /\ oauth_sessions[svc] # NoOAuth
        /\ provider[oauth_sessions[svc]].state = "completed"
        /\ provider[oauth_sessions[svc]].svc = svc
        /\ response = Response("initiate", "completed", oauth_sessions[svc])

\* C29: the step that starts an analysis takes an id no session has, stores
\* a session that get_result reports as running without result, records or
\* error, and leaves the pipeline scheduled but not begun: the coroutine is
\* at its first await, the crew is idle and nothing has been published.
C29_StartReturnsRunning ==
    [][\A sid \in AnalysisIds :
          (run[sid].pc = "none" /\ run'[sid].pc # "none") =>
              /\ sid \notin DOMAIN sessions
              /\ get_result(sid)' = [found |-> TRUE, session_id |-> sid, status |-> "running",
                                     result |-> JNone, task_outputs |-> <<>>,
                                     error |-> FALSE, message |-> FALSE]
              /\ run'[sid] = [IdleRun EXCEPT !.pc = "sleep"]
              /\ crew'[sid] = IdleCrew
              /\ published' = published
              /\ sid \notin DOMAIN task_to_agent_map']_vars

\* right after start_analysis: the session is running and the pipeline has
\* not taken a step
C29_Witness ==
    \E sid \in AnalysisIds :
        /\ run[sid].pc = "sleep"
        /\ get_result(sid).found
        /\ get_result(sid).status = "running"
        /\ get_result(sid).result = JNone
        /\ published[sid] = <<>>

SessionStatuses == {"running", "completed", "failed", "pending_tasks"}

\* C30: get_result of an id without session (never created, or cleared) is
\* not-found; of an id with a session it is a snapshot with every field,
\* whose status is the session's, with the result and the 17 records when
\* completed, the error when failed and the message when pending_tasks.
C30_GetResultTotal ==
    \A sid \in SessionIds :
        LET snap == get_result(sid) IN
        IF sid \notin DOMAIN sessions THEN snap = NotFound
        ELSE /\ DOMAIN snap = {"found", "session_id", "status", "result", "task_outputs",
                                 "error", "message"}
             /\ snap.found /\ snap.session_id = sid
             /\ snap.status = sessions[sid].status
             /\ snap.status \in SessionStatuses
             /\ snap.result = sessions[sid].result
             /\ snap.status = "completed" =>
                   snap.result.t = "obj" /\ Len(snap.task_outputs) = NumTasks
             /\ snap.status = "running" => snap.result = JNone /\ ~snap.error
             /\ snap.status = "failed" => snap.error
             /\ snap.status = "pending_tasks" => snap.message

\* the session of an ended run has been cleared and get_result finds neither
\* it nor the id that was never created
C30_Witness ==
    /\ run["s1"].pc = "done"
    /\ published["s1"] # <<>>
    /\ get_result("s1") = NotFound
    /\ get_result("s2") = NotFound

\* ------------------------------------------------------------------------
\* C31: the current-step pointer of a session starts at 0 (the first step);
\* while the session has a pointer, it changes only by +1 and only in the
\* step that handles an AgentFinish callback ("finish_long"), never in the
\* step that handles a thought; it never decreases and never exceeds 16.
\* ------------------------------------------------------------------------
PointerSteps(sid) ==
    /\ (sid \in DOMAIN current_task_index' /\ sid \notin DOMAIN current_task_index)
          => current_task_index'[sid] = 0
    /\ (sid \in DOMAIN current_task_index' /\ sid \in DOMAIN current_task_index
          /\ current_task_index'[sid] # current_task_index[sid])
          => /\ current_task_index'[sid] = current_task_index[sid] + 1
             /\ crew[sid].cbs # <<>>
             /\ Head(crew[sid].cbs) = "finish_long"
             /\ crew'[sid].cbs = Tail(crew[sid].cbs)
    /\ sid \in DOMAIN current_task_index' => current_task_index'[sid] \in 0..(NumTasks - 1)

C31_PointerAdvancesOnlyOnFinish == [][\A sid \in AnalysisIds : PointerSteps(sid)]_vars

\* the last callback handled for a running crew with completed tasks was a
\* thought, and the pointer of the session is still at the first step
C31_Witness ==
    \E sid \in AnalysisIds :
        /\ sid \in DOMAIN current_task_index
        /\ crew[sid].state = "running"
        /\ crew[sid].done >= 1
        /\ crew[sid].stepped = "thought"
        /\ current_task_index[sid] = 0

\* ------------------------------------------------------------------------
\* C32: the step that handles a conclusion (AgentFinish) or a thought of a
\* session forwards it: it publishes one agent_message of that kind whose
\* agent is the role of the step the pointer indicates.
\* ------------------------------------------------------------------------
\* this step is _step_callback handling the head of the pending callbacks
Handles(sid) ==
    /\ crew[sid].cbs # <<>>
    /\ crew'[sid] = [crew[sid] EXCEPT !.cbs = Tail(@), !.stepped = Head(crew[sid].cbs)]

MessageTypeOf(kind) == IF kind = "finish_long" THEN "conclusion" ELSE "thought"

C32_StepsForwardedWithRole ==
    [][\A sid \in AnalysisIds :
          (/\ Handles(sid)
           /\ Head(crew[sid].cbs) \in {"finish_long", "thought"}
           /\ sid \in DOMAIN task_to_agent_map
           /\ sid \in DOMAIN current_task_index)
          => /\ Len(published'[sid]) = Len(published[sid]) + 1
             /\ Last(published'[sid]).type = "agent_message"
             /\ Last(published'[sid]).tag = MessageTypeOf(Head(crew[sid].cbs))
             /\ Last(published'[sid]).agent =
                    task_to_agent_map[sid][current_task_index[sid] + 1]]_vars

\* ------------------------------------------------------------------------
\* C33: a run whose session clear_session has removed still ends cleanly:
\* the coroutine returns (no unhandled error), a terminal phase_change has
\* been published for the session, and its tracking entries are gone
\* (for a build whose task modules import, so that the run has steps).
\* ------------------------------------------------------------------------
EndsCleanly(sid) ==
    /\ run[sid].pc = "done"
    /\ HasTerminal(published[sid])
    /\ sid \notin DOMAIN task_to_agent_map
    /\ sid \notin DOMAIN current_task_index

C33_ClearedRunEndsCleanly ==
    \A sid \in AnalysisIds :
        (TASKS_AVAILABLE /\ Ended(sid) /\ sid \notin DOMAIN sessions) => EndsCleanly(sid)

\* ------------------------------------------------------------------------
\* C34: in a step that publishes messages for a session, every listener that
\* is registered for the session before and after the step gets exactly these
\* messages, once each and in order, at the end of its queue, whatever other
\* listeners have subscribed or unsubscribed around it.
\* ------------------------------------------------------------------------
NewlyPublished(sid) ==
    SubSeq(published'[sid], Len(published[sid]) + 1, Len(published'[sid]))

C34_PutExactlyOnce ==
    [][\A sid \in SessionIds, l \in Listeners :
          (/\ published'[sid] # published[sid]
           /\ Registered(session_queues, sid, l)
           /\ Registered(session_queues', sid, l))
          => queues'[l] = queues[l] \o NewlyPublished(sid)]_vars

\* listener l1 has been given two messages of the session and l2 subscribed
\* to the same session between the two
C34_Witness ==
    \E l1, l2 \in Listeners :
        /\ l1 # l2
        /\ stream[l1].pc = "streaming" /\ stream[l2].pc = "streaming"
        /\ stream[l1].sid = stream[l2].sid
        /\ stream[l1].subAt < stream[l2].subAt
        /\ stream[l2].subAt < Len(published[stream[l1].sid])
        /\ Len(stream[l1].received \o queues[l1]) >= 2
        /\ Len(queues[l2]) = 1

\* ------------------------------------------------------------------------
\* C35: the callback events of a session are published in the order of the
\* callbacks: when the callback handled last was a conclusion or a thought,
\* the latest conclusion or thought event published for the session is the
\* event of that callback.
\* ------------------------------------------------------------------------
CallbackEvents(msgs) ==
    {i \in 1..Len(msgs) : msgs[i].type = "agent_message"
                            /\ msgs[i].tag \in {"conclusion", "thought"}}

C36_CachedSessionOfSameService ==
    \A svc \in Services :
        oauth_sessions[svc] # NoOAuth => provider[oauth_sessions[svc]].svc = svc

\* ------------------------------------------------------------------------
\* C37: the 'Calendar event created' messages of a session are as many as
\* the calendar calls of the session that succeeded, and the count c of
\* 'Calendar setup complete: c/n' is that number.
\* ------------------------------------------------------------------------
SucceededCalls(sid) == Len(SelectSeq(CallsOf(sid), LAMBDA c : c.outcome = "created"))

C37_CreatedMeansSucceeded ==
    \A sid \in AnalysisIds :
        /\ Len(SelectSeq(published[sid], LAMBDA m : m = EventCreated)) = SucceededCalls(sid)
        /\ \A i \in 1..Len(published[sid]) :
              LET m == published[sid][i] IN
              (m.type = "agent_message" /\ m.tag = "success" /\ m.data.t = "count")
                  => m.data.c = SucceededCalls(sid)

\* ------------------------------------------------------------------------
\* C38: a subscribe, an unsubscribe or a publish on session A leaves every
\* other session B alone: B's list of subscribers, the queues of B's
\* subscribers and the events published for B are unchanged.
\* ------------------------------------------------------------------------
SubscribersOf(sq, sid) == IF sid \in DOMAIN sq THEN sq[sid] ELSE <<>>

\* this step is a subscribe, an unsubscribe or a publish on session a
OperationOn(a) ==
    \/ published'[a] # published[a]
    \/ \E l \in Listeners : stream[l].pc = "new" /\ stream'[l].pc = "streaming"
                              /\ stream'[l].sid = a
    \/ \E l \in Listeners : stream[l].pc = "streaming" /\ stream[l].sid = a
                              /\ stream'[l].pc = "closed"

C38_SessionsIsolated ==
    [][\A a, b \in SessionIds :
          (a # b /\ OperationOn(a))
          => /\ (b \in DOMAIN session_queues') = (b \in DOMAIN session_queues)
             /\ SubscribersOf(session_queues', b) = SubscribersOf(session_queues, b)
             /\ published'[b] = published[b]
             /\ \A l \in Listeners :
                   Registered(session_queues, b, l) => queues'[l] = queues[l]]_vars

\* each of the two sessions has a subscriber that was given the one event
\* published for its session, so the later of the two publishes ran while
\* the other session had a subscriber
C38_Witness ==
    \E l1, l2 \in Listeners :
        /\ stream[l1].pc = "streaming" /\ stream[l1].sid = "s1" /\ stream[l1].subAt = 0
        /\ stream[l2].pc = "streaming" /\ stream[l2].sid = "s2" /\ stream[l2].subAt = 0
        /\ Len(published["s1"]) = 1 /\ Len(published["s2"]) = 1
        /\ stream[l1].received \o queues[l1] = published["s1"]
        /\ stream[l2].received \o queues[l2] = published["s2"]
        /\ published["s1"] # published["s2"]

\* ------------------------------------------------------------------------
\* C39: a session that completed holds 17 step records, numbered 1..17 in
\* the order of execution, each with the role of its step and its output.
\* ------------------------------------------------------------------------
C39_SeventeenRecordsWithRole ==
    \A sid \in DOMAIN sessions :
        sessions[sid].status = "completed" =>
            LET recs == sessions[sid].task_outputs IN
            /\ Len(recs) = NumTasks
            /\ \A i \in 1..Len(recs) :
                  /\ recs[i].task_number = i
                  /\ ~recs[i].error
                  /\ recs[i].agent = all_tasks[i].agent

\* ------------------------------------------------------------------------
\* C40: the queue of a subscriber has a fixed capacity, and the messages
\* published and not yet consumed that it holds never exceed it.
\* ------------------------------------------------------------------------
C40_QueuesBounded ==
    \A l \in Listeners :
        (stream[l].pc = "streaming" /\ queues[l] # <<>>) =>
            /\ QueueMaxsize > 0
            /\ Len(queues[l]) <= QueueMaxsize
====
